---- MODULE Spec2Model ----
(***************************************************************************)
(* Model of valhalla::baldr::DirectedEdge (directededge.cc): the packed    *)
(* directed edge record, its validating setters, the OverwriteBits helper  *)
(* and the 5 bit slope codec.                                              *)
(*                                                                         *)
(* A uint32_t is modelled as the set of its set bit positions (a subset of *)
(* 0..31), so that the whole 32 bit range is covered and every shift, mask *)
(* and wrap-around is computed bit by bit as the hardware does.  Values    *)
(* held in the record's bit-fields are at most 25 bits wide and are kept   *)
(* as naturals.                                                            *)
(***************************************************************************)
EXTENDS Integers, FiniteSets, Sequences, TLC

(***************************************************************************)
(* Limits of baldr/directededge.h and baldr/graphconstants.h.              *)
(***************************************************************************)
kMaxEdgeInfoOffset == 33554431
kMaxEdgeLength == 16777215
kMaxGradeFactor == 15
kMaxCurvatureFactor == 15
kMaxBicycleNetwork == 15
kMaxLaneCount == 15
kMaxTurnRestrictionEdges == 8
kAllAccess == 4095
kMaxSpeed == 255
kMaxDensity == 15
kMaxLocalEdgeIndex == 7
kMaxEdgesPerNode == 127
kMaxStopImpact == 7
kMaxShortcutsFromNode == 7

\* Width of uint32_t, the type of every integer argument of the setters.
WordBits == 32
\* Width of the slope codes max_up_slope_ and max_down_slope_ (codes to 0x1f).
SlopeBits == 5
\* Width of one turn type and of one stop impact inside their arrays.
TurnTypeBits == 3
\* Width of one edge-to-left / edge-to-right flag inside its array.
FlagBits == 1
\* weighted_grade_ of a level edge, set by the constructor.
kDefaultGrade == 6

(***************************************************************************)
(* uint32_t arithmetic on sets of bit positions.                           *)
(***************************************************************************)
BitPos == 0 .. (WordBits - 1)

\* The word of a natural below 2^31.
Bits(n) == { b \in 0 .. (WordBits - 2) : (n \div (2 ^ b)) % 2 = 1 }

RECURSIVE Val(_)
\* The natural of a word whose bit 31 is clear.
Val(x) ==
  IF x = {} THEN 0
  ELSE LET b == CHOOSE c \in x : \A d \in x : d <= c
       IN (2 ^ b) + Val(x \ {b})

AllOnes == BitPos

And(x, y) == x \cap y
Or(x, y) == x \cup y
Not(x) == BitPos \ x

\* x << k for a shift count k in 0..31: the bits shifted past bit 31 are lost.
Shl(x, k) == { b + k : b \in x } \cap BitPos

\* x > y and x >= y on unsigned words.
Gt(x, y) == \E b \in x \ y : \A c \in y \ x : c < b
Ge(x, y) == x = y \/ Gt(x, y)

RECURSIVE Add(_, _)
\* x + y modulo 2^32 (carries ripple upwards and fall off bit 31).
Add(x, y) ==
  IF y = {} THEN x
  ELSE Add((x \cup y) \ (x \cap y), Shl(x \cap y, 1))

\* x - 1 modulo 2^32.
Dec(x) ==
  IF x = {} THEN AllOnes
  ELSE LET m == CHOOSE c \in x : \A d \in x : c <= d
       IN (x \ {m}) \cup (0 .. (m - 1))

RECURSIVE Mul(_, _)
\* x * y modulo 2^32.
Mul(x, y) ==
  IF y = {} THEN {}
  ELSE LET b == CHOOSE c \in y : TRUE
       IN Add(Shl(x, b), Mul(x, y \ {b}))

\* The number of bits of the narrowest bit-field that holds max.
RECURSIVE FieldBits(_)
FieldBits(max) == IF max = 0 THEN 0 ELSE 1 + FieldBits(max \div 2)

\* Assignment of a uint32_t to an unsigned bit-field of w bits: the value
\* modulo 2^w.
Store(x, w) == Val(x \cap (0 .. (w - 1)))

\* Conversion of a bool argument to uint32_t.
BoolWord(f) == IF f THEN {0} ELSE {}

\* x >> k for a shift count k in 0..31.
Shr(x, k) == { b - k : b \in { c \in x : c >= k } }

(***************************************************************************)
(* A shift of a 32 bit operand by a count of 32 or more is undefined.      *)
(* ShiftModes are the results a build produces for it: the count taken     *)
(* modulo 32 (x86), every bit shifted out (ARM), or an unspecified value,  *)
(* represented by the word of all ones.                                    *)
(***************************************************************************)
ShiftModes == {"wrap", "zero", "ones"}

UndefinedShift(count) == Ge(count, Bits(WordBits))

ShiftLeft(x, count, mode) ==
  IF ~UndefinedShift(count) THEN Shl(x, Val(count))
  ELSE IF mode = "wrap" THEN Shl(x, Val(count \cap (0 .. 4)))
  ELSE IF mode = "zero" THEN {}
  ELSE AllOnes

\* Mutant of OverwriteBitsMode: the old bits of the slot are not cleared.
OverwriteBits_NoClear(dst, src, pos, len, mode) ==
  Or(dst, ShiftLeft(src, Mul(pos, len), mode))

\* OverwriteBits with its undefined shifts, if any, resolved by mode.
OverwriteBitsMode(dst, src, pos, len, mode) ==
  LET shift == Mul(pos, len)
      mask == ShiftLeft(Dec(ShiftLeft(Bits(1), len, mode)), shift, mode)
  IN Or(And(dst, Not(mask)), ShiftLeft(src, shift, mode))

\* Whether a call of OverwriteBits evaluates an undefined shift.
OverwriteBitsUndefined(pos, len) ==
  UndefinedShift(len) \/ UndefinedShift(Mul(pos, len))

\* The values OverwriteBits(dst, src, pos, len) can return: one value when
\* every shift is defined.
OverwriteBits(dst, src, pos, len) ==
  { OverwriteBitsMode(dst, src, pos, len, mode) : mode \in ShiftModes }

(***************************************************************************)
(* The record.  stopimpact_ is the 32 bit union StopOrLine: its low 24     *)
(* bits are s.stopimpact, its high 8 bits s.edge_to_right, and the whole   *)
(* word is lineid.                                                         *)
(***************************************************************************)
VARIABLES
  e,          \* the DirectedEdge
  log,        \* highest severity logged by the last call: none, warn, error
  thrown,     \* whether the last call threw std::runtime_error
  ub,         \* whether the last call evaluated an undefined shift
  last,       \* the last call: its name and arguments
  calls,      \* number of calls made (bounded specifications only)
  written,    \* turn type of the most recent in-range set_turntype per index
  ow          \* a call of OverwriteBits: its arguments and, once made, its result

vars == <<e, log, thrown, ub, last, calls, written, ow>>

LocalIdx == 0 .. kMaxLocalEdgeIndex
TurnArrayBits == TurnTypeBits * (kMaxLocalEdgeIndex + 1)
FlagArrayBits == FlagBits * (kMaxLocalEdgeIndex + 1)
StopImpactField == 0 .. (TurnArrayBits - 1)

\* DirectedEdge::DirectedEdge(): memset to zero, then weighted_grade_ = 6.
DirectedEdge ==
  [ edgeinfo_offset_ |-> 0, length_ |-> 0, weighted_grade_ |-> kDefaultGrade,
    curvature_ |-> 0, bike_network_ |-> 0, lanecount_ |-> 0,
    restrictions_ |-> 0, forwardaccess_ |-> 0, reverseaccess_ |-> 0,
    speed_ |-> 0, speed_limit_ |-> 0, truck_speed_ |-> 0,
    max_up_slope_ |-> 0, max_down_slope_ |-> 0, density_ |-> 0,
    turntype_ |-> 0, edge_to_left_ |-> 0, stopimpact_ |-> {},
    localedgeidx_ |-> 0, opp_local_idx_ |-> 0,
    shortcut_ |-> 0, superseded_ |-> 0, is_shortcut_ |-> FALSE ]

\* The views of the union stopimpact_.
s_stopimpact(r) == Val(r.stopimpact_ \cap StopImpactField)
s_edge_to_right(r) == Val(Shr(r.stopimpact_, TurnArrayBits))
lineid(r) == r.stopimpact_

\* Element i of a packed array of w bit elements.
Slot(array, i, w) == (array \div (2 ^ (i * w))) % (2 ^ w)

NoArg == {}

\* No call of OverwriteBits on its own.
NoOverwrite ==
  [dst |-> {}, src |-> {}, pos |-> {}, len |-> {}, out |-> {},
   undefined |-> FALSE, done |-> FALSE]

Call(op, a, b, s) == last' = [op |-> op, a |-> a, b |-> b, s |-> s]

Report(level, throws, undefined) ==
  /\ log' = level
  /\ thrown' = throws
  /\ ub' = undefined

Init ==
  /\ e = DirectedEdge
  /\ log = "none"
  /\ thrown = FALSE
  /\ ub = FALSE
  /\ last = [op |-> "DirectedEdge", a |-> NoArg, b |-> NoArg, s |-> 0]
  /\ calls = 0
  /\ written = [i \in LocalIdx |-> 0]
  /\ ow = NoOverwrite

(***************************************************************************)
(* The setters.  Each is the whole method: the stores it makes, what it    *)
(* logs and whether it throws.                                             *)
(***************************************************************************)
\* Mutant of set_edgeinfo_offset: the offset is stored before the test.
set_edgeinfo_offset_StoreFirst(offset) ==
  /\ e' = [e EXCEPT !.edgeinfo_offset_ =
                      Store(offset, FieldBits(kMaxEdgeInfoOffset))]
  /\ IF Gt(offset, Bits(kMaxEdgeInfoOffset))
       THEN Report("error", TRUE, FALSE)
       ELSE Report("none", FALSE, FALSE)
  /\ Call("set_edgeinfo_offset", offset, NoArg, 0)

set_edgeinfo_offset(offset) ==
  /\ IF Gt(offset, Bits(kMaxEdgeInfoOffset))
       THEN /\ e' = e
            /\ Report("error", TRUE, FALSE)
       ELSE /\ e' = [e EXCEPT !.edgeinfo_offset_ =
                                 Store(offset, FieldBits(kMaxEdgeInfoOffset))]
            /\ Report("none", FALSE, FALSE)
  /\ Call("set_edgeinfo_offset", offset, NoArg, 0)

\* Mutant of set_length: no test, and a member as wide as the argument.
set_length_Unclamped(length) ==
  /\ e' = [e EXCEPT !.length_ = Store(length, WordBits - 1)]
  /\ Report("none", FALSE, FALSE)
  /\ Call("set_length", length, NoArg, 0)

set_length(length) ==
  /\ IF Gt(length, Bits(kMaxEdgeLength))
       THEN /\ e' = [e EXCEPT !.length_ = kMaxEdgeLength]
            /\ Report("warn", FALSE, FALSE)
       ELSE /\ e' = [e EXCEPT !.length_ = Store(length, FieldBits(kMaxEdgeLength))]
            /\ Report("none", FALSE, FALSE)
  /\ Call("set_length", length, NoArg, 0)

set_weighted_grade(factor) ==
  /\ IF Gt(factor, Bits(kMaxGradeFactor))
       THEN /\ e' = [e EXCEPT !.weighted_grade_ = kDefaultGrade]
            /\ Report("warn", FALSE, FALSE)
       ELSE /\ e' = [e EXCEPT !.weighted_grade_ = Store(factor, FieldBits(kMaxGradeFactor))]
            /\ Report("none", FALSE, FALSE)
  /\ Call("set_weighted_grade", factor, NoArg, 0)

set_curvature(factor) ==
  /\ IF Gt(factor, Bits(kMaxCurvatureFactor))
       THEN /\ e' = [e EXCEPT !.curvature_ = 0]
            /\ Report("warn", FALSE, FALSE)
       ELSE /\ e' = [e EXCEPT !.curvature_ = Store(factor, FieldBits(kMaxCurvatureFactor))]
            /\ Report("none", FALSE, FALSE)
  /\ Call("set_curvature", factor, NoArg, 0)

set_bike_network(bike_network) ==
  /\ IF Gt(bike_network, Bits(kMaxBicycleNetwork))
       THEN /\ e' = [e EXCEPT !.bike_network_ = 0]
            /\ Report("warn", FALSE, FALSE)
       ELSE /\ e' = [e EXCEPT !.bike_network_ = Store(bike_network, FieldBits(kMaxBicycleNetwork))]
            /\ Report("none", FALSE, FALSE)
  /\ Call("set_bike_network", bike_network, NoArg, 0)

set_lanecount(lanecount) ==
  /\ IF Gt(lanecount, Bits(kMaxLaneCount))
       THEN /\ e' = [e EXCEPT !.lanecount_ = kMaxLaneCount]
            /\ Report("warn", FALSE, FALSE)
       ELSE /\ e' = [e EXCEPT !.lanecount_ = Store(lanecount, FieldBits(kMaxLaneCount))]
            /\ Report("none", FALSE, FALSE)
  /\ Call("set_lanecount", lanecount, NoArg, 0)

set_restrictions(mask) ==
  /\ IF Ge(mask, Shl(Bits(1), kMaxTurnRestrictionEdges))
       THEN /\ e' = [e EXCEPT !.restrictions_ =
                       Store(And(mask, Dec(Shl(Bits(1), kMaxTurnRestrictionEdges))),
                             kMaxTurnRestrictionEdges)]
            /\ Report("warn", FALSE, FALSE)
       ELSE /\ e' = [e EXCEPT !.restrictions_ =
                                 Store(mask, kMaxTurnRestrictionEdges)]
            /\ Report("none", FALSE, FALSE)
  /\ Call("set_restrictions", mask, NoArg, 0)

\* The if/else stores the masked or the given modes; the statement after
\* it stores modes again, into the bit-field of forwardaccess_.
set_forwardaccess(modes) ==
  /\ LET branch == IF Gt(modes, Bits(kAllAccess))
                     THEN [e EXCEPT !.forwardaccess_ =
                             Store(And(modes, Bits(kAllAccess)), FieldBits(kAllAccess))]
                     ELSE [e EXCEPT !.forwardaccess_ =
                             Store(modes, FieldBits(kAllAccess))]
     IN e' = [branch EXCEPT !.forwardaccess_ = Store(modes, FieldBits(kAllAccess))]
  /\ Report(IF Gt(modes, Bits(kAllAccess)) THEN "error" ELSE "none", FALSE, FALSE)
  /\ Call("set_forwardaccess", modes, NoArg, 0)

set_all_forward_access ==
  /\ e' = [e EXCEPT !.forwardaccess_ = kAllAccess, !.reverseaccess_ = kAllAccess]
  /\ Report("none", FALSE, FALSE)
  /\ Call("set_all_forward_access", NoArg, NoArg, 0)

\* Mutant of set_reverseaccess: the copy of set_forwardaccess still stores
\* into forwardaccess_.
set_reverseaccess_Copied(modes) ==
  /\ IF Gt(modes, Bits(kAllAccess))
       THEN /\ e' = [e EXCEPT !.forwardaccess_ =
                       Store(And(modes, Bits(kAllAccess)), FieldBits(kAllAccess))]
            /\ Report("error", FALSE, FALSE)
       ELSE /\ e' = [e EXCEPT !.forwardaccess_ =
                                 Store(modes, FieldBits(kAllAccess))]
            /\ Report("none", FALSE, FALSE)
  /\ Call("set_reverseaccess", modes, NoArg, 0)

set_reverseaccess(modes) ==
  /\ IF Gt(modes, Bits(kAllAccess))
       THEN /\ e' = [e EXCEPT !.reverseaccess_ =
                       Store(And(modes, Bits(kAllAccess)), FieldBits(kAllAccess))]
            /\ Report("error", FALSE, FALSE)
       ELSE /\ e' = [e EXCEPT !.reverseaccess_ =
                                 Store(modes, FieldBits(kAllAccess))]
            /\ Report("none", FALSE, FALSE)
  /\ Call("set_reverseaccess", modes, NoArg, 0)

set_speed(speed) ==
  /\ IF Gt(speed, Bits(kMaxSpeed))
       THEN /\ e' = [e EXCEPT !.speed_ = kMaxSpeed]
            /\ Report("warn", FALSE, FALSE)
       ELSE /\ e' = [e EXCEPT !.speed_ = Store(speed, FieldBits(kMaxSpeed))]
            /\ Report("none", FALSE, FALSE)
  /\ Call("set_speed", speed, NoArg, 0)

set_speed_limit(speed_limit) ==
  /\ IF Gt(speed_limit, Bits(kMaxSpeed))
       THEN /\ e' = [e EXCEPT !.speed_limit_ = kMaxSpeed]
            /\ Report("warn", FALSE, FALSE)
       ELSE /\ e' = [e EXCEPT !.speed_limit_ = Store(speed_limit, FieldBits(kMaxSpeed))]
            /\ Report("none", FALSE, FALSE)
  /\ Call("set_speed_limit", speed_limit, NoArg, 0)

set_truck_speed(speed) ==
  /\ IF Gt(speed, Bits(kMaxSpeed))
       THEN /\ e' = [e EXCEPT !.truck_speed_ = kMaxSpeed]
            /\ Report("warn", FALSE, FALSE)
       ELSE /\ e' = [e EXCEPT !.truck_speed_ = Store(speed, FieldBits(kMaxSpeed))]
            /\ Report("none", FALSE, FALSE)
  /\ Call("set_truck_speed", speed, NoArg, 0)

set_density(density) ==
  /\ IF Gt(density, Bits(kMaxDensity))
       THEN /\ e' = [e EXCEPT !.density_ = kMaxDensity]
            /\ Report("warn", FALSE, FALSE)
       ELSE /\ e' = [e EXCEPT !.density_ = Store(density, FieldBits(kMaxDensity))]
            /\ Report("none", FALSE, FALSE)
  /\ Call("set_density", density, NoArg, 0)

set_localedgeidx(idx) ==
  /\ IF Gt(idx, Bits(kMaxEdgesPerNode))
       THEN /\ e' = [e EXCEPT !.localedgeidx_ = kMaxEdgesPerNode]
            /\ Report("warn", FALSE, FALSE)
       ELSE /\ e' = [e EXCEPT !.localedgeidx_ =
                                 Store(idx, FieldBits(kMaxEdgesPerNode))]
            /\ Report("none", FALSE, FALSE)
  /\ Call("set_localedgeidx", idx, NoArg, 0)

set_opp_local_idx(idx) ==
  /\ IF Gt(idx, Bits(kMaxEdgesPerNode))
       THEN /\ e' = [e EXCEPT !.opp_local_idx_ = kMaxEdgesPerNode]
            /\ Report("warn", FALSE, FALSE)
       ELSE /\ e' = [e EXCEPT !.opp_local_idx_ =
                                 Store(idx, FieldBits(kMaxEdgesPerNode))]
            /\ Report("none", FALSE, FALSE)
  /\ Call("set_opp_local_idx", idx, NoArg, 0)

(***************************************************************************)
(* The slope codec.  A float slope is modelled as the integer k of the     *)
(* slope k / SlopeGrid degrees; the comparisons, the subtraction of 16,    *)
(* the multiplication by 0.25 and std::ceil are exact on such values.      *)
(***************************************************************************)
SlopeGrid == 2

\* std::ceil(n / d) for d > 0.
Ceil(n, d) == -((-n) \div d)

max_up_slope(r) ==
  IF And(Bits(r.max_up_slope_), Bits(16)) = {}
    THEN r.max_up_slope_
    ELSE 16 + (Val(And(Bits(r.max_up_slope_), Bits(15))) * 4)

\* Mutant of set_max_up_slope: the steps above 16 degrees are truncated
\* instead of rounded up.
set_max_up_slope_Truncating(slope) ==
  /\ e' = [e EXCEPT !.max_up_slope_ =
             IF slope < 0 THEN 0
             ELSE IF slope < 16 * SlopeGrid
               THEN Store(Bits(Ceil(slope, SlopeGrid)), SlopeBits)
             ELSE IF slope < 76 * SlopeGrid
               THEN Store(Or(Bits(16),
                             Bits((slope - (16 * SlopeGrid)) \div (4 * SlopeGrid))),
                          SlopeBits)
             ELSE 31]
  /\ Report("none", FALSE, FALSE)
  /\ Call("set_max_up_slope", NoArg, NoArg, slope)

set_max_up_slope(slope) ==
  /\ e' = [e EXCEPT !.max_up_slope_ =
             IF slope < 0 THEN 0
             ELSE IF slope < 16 * SlopeGrid
               THEN Store(Bits(Ceil(slope, SlopeGrid)), SlopeBits)
             ELSE IF slope < 76 * SlopeGrid
               THEN Store(Or(Bits(16),
                             Bits(Ceil(slope - (16 * SlopeGrid), 4 * SlopeGrid))),
                          SlopeBits)
             ELSE 31]
  /\ Report("none", FALSE, FALSE)
  /\ Call("set_max_up_slope", NoArg, NoArg, slope)

max_down_slope(r) ==
  IF And(Bits(r.max_down_slope_), Bits(16)) = {}
    THEN -(r.max_down_slope_)
    ELSE -(16 + (Val(And(Bits(r.max_down_slope_), Bits(15))) * 4))

set_max_down_slope(slope) ==
  /\ e' = [e EXCEPT !.max_down_slope_ =
             IF slope > 0 THEN 0
             ELSE IF slope > -(16 * SlopeGrid)
               THEN Store(Bits(Ceil(-slope, SlopeGrid)), SlopeBits)
             ELSE IF slope > -(76 * SlopeGrid)
               THEN Store(Or(Bits(16),
                             Bits(Ceil((-slope) - (16 * SlopeGrid), 4 * SlopeGrid))),
                          SlopeBits)
             ELSE 31]
  /\ Report("none", FALSE, FALSE)
  /\ Call("set_max_down_slope", NoArg, NoArg, slope)

(***************************************************************************)
(* The per-local-index arrays.                                             *)
(***************************************************************************)
set_turntype(localidx, turntype) ==
  /\ IF Gt(localidx, Bits(kMaxLocalEdgeIndex))
       THEN /\ e' = e
            /\ Report("warn", FALSE, FALSE)
       ELSE /\ \E v \in OverwriteBits(Bits(e.turntype_), turntype, localidx,
                                      Bits(TurnTypeBits)) :
                 e' = [e EXCEPT !.turntype_ = Store(v, TurnArrayBits)]
            /\ Report("none", FALSE,
                      OverwriteBitsUndefined(localidx, Bits(TurnTypeBits)))
  /\ Call("set_turntype", localidx, turntype, 0)

set_edge_to_left(localidx, left) ==
  /\ IF Gt(localidx, Bits(kMaxLocalEdgeIndex))
       THEN /\ e' = e
            /\ Report("warn", FALSE, FALSE)
       ELSE /\ \E v \in OverwriteBits(Bits(e.edge_to_left_), BoolWord(left),
                                      localidx, Bits(FlagBits)) :
                 e' = [e EXCEPT !.edge_to_left_ = Store(v, FlagArrayBits)]
            /\ Report("none", FALSE,
                      OverwriteBitsUndefined(localidx, Bits(FlagBits)))
  /\ Call("set_edge_to_left", localidx, BoolWord(left), 0)

\* Mutant of set_stopimpact: the stop impact is not clamped.
set_stopimpact_Unclamped(localidx, stopimpact) ==
  /\ \E v \in OverwriteBits(Bits(s_stopimpact(e)), stopimpact, localidx,
                            Bits(TurnTypeBits)) :
       e' = [e EXCEPT !.stopimpact_ =
               (@ \ StopImpactField) \cup (v \cap StopImpactField)]
  /\ Report(IF Gt(stopimpact, Bits(kMaxStopImpact)) THEN "warn" ELSE "none",
            FALSE, OverwriteBitsUndefined(localidx, Bits(TurnTypeBits)))
  /\ Call("set_stopimpact", localidx, stopimpact, 0)

\* No test of localidx: the index goes to OverwriteBits as given, and the
\* result is stored in the 24 bit field s.stopimpact of the union.
set_stopimpact(localidx, stopimpact) ==
  /\ LET src == IF Gt(stopimpact, Bits(kMaxStopImpact))
                  THEN Bits(kMaxStopImpact) ELSE stopimpact
     IN \E v \in OverwriteBits(Bits(s_stopimpact(e)), src, localidx,
                               Bits(TurnTypeBits)) :
          e' = [e EXCEPT !.stopimpact_ =
                  (@ \ StopImpactField) \cup (v \cap StopImpactField)]
  /\ Report(IF Gt(stopimpact, Bits(kMaxStopImpact)) THEN "warn" ELSE "none",
            FALSE, OverwriteBitsUndefined(localidx, Bits(TurnTypeBits)))
  /\ Call("set_stopimpact", localidx, stopimpact, 0)

\* Mutant of set_lineid: the id is stored in the stop impact field only.
set_lineid_StopImpactOnly(id) ==
  /\ e' = [e EXCEPT !.stopimpact_ =
                      (@ \ StopImpactField) \cup (id \cap StopImpactField)]
  /\ Report("none", FALSE, FALSE)
  /\ Call("set_lineid", id, NoArg, 0)

set_lineid(id) ==
  /\ e' = [e EXCEPT !.stopimpact_ = id]
  /\ Report("none", FALSE, FALSE)
  /\ Call("set_lineid", id, NoArg, 0)

set_edge_to_right(localidx, right) ==
  /\ IF Gt(localidx, Bits(kMaxLocalEdgeIndex))
       THEN /\ e' = e
            /\ Report("warn", FALSE, FALSE)
       ELSE /\ \E v \in OverwriteBits(Bits(s_edge_to_right(e)), BoolWord(right),
                                      localidx, Bits(FlagBits)) :
                 e' = [e EXCEPT !.stopimpact_ =
                         (@ \cap StopImpactField)
                           \cup Shl(v \cap (0 .. (FlagArrayBits - 1)), TurnArrayBits)]
            /\ Report("none", FALSE,
                      OverwriteBitsUndefined(localidx, Bits(FlagBits)))
  /\ Call("set_edge_to_right", localidx, BoolWord(right), 0)

(***************************************************************************)
(* Shortcut and superseded masks.                                          *)
(***************************************************************************)
\* Mutant of set_shortcut: the bit is added to the mask (|=).
set_shortcut_Accumulating(shortcut) ==
  /\ IF shortcut = Bits(0)
       THEN /\ e' = e
            /\ Report("warn", FALSE, FALSE)
       ELSE /\ e' = [e EXCEPT
                 !.shortcut_ =
                    IF ~Gt(shortcut, Bits(kMaxShortcutsFromNode))
                      THEN Store(Or(Bits(@), Shl(Bits(1), Val(Dec(shortcut)))),
                                 kMaxShortcutsFromNode)
                      ELSE @,
                 !.is_shortcut_ = TRUE]
            /\ Report("none", FALSE, FALSE)
  /\ Call("set_shortcut", shortcut, NoArg, 0)

set_shortcut(shortcut) ==
  /\ IF shortcut = Bits(0)
       THEN /\ e' = e
            /\ Report("warn", FALSE, FALSE)
       ELSE /\ e' = [e EXCEPT
                 !.shortcut_ =
                    IF ~Gt(shortcut, Bits(kMaxShortcutsFromNode))
                      THEN Store(Shl(Bits(1), Val(Dec(shortcut))),
                                 kMaxShortcutsFromNode)
                      ELSE @,
                 !.is_shortcut_ = TRUE]
            /\ Report("none", FALSE, FALSE)
  /\ Call("set_shortcut", shortcut, NoArg, 0)

\* superseded - 1 is computed in uint32_t: for 0 the shift count is
\* 4294967295 and the shift is undefined.
set_superseded(superseded) ==
  /\ IF Gt(superseded, Bits(kMaxShortcutsFromNode))
       THEN /\ e' = e
            /\ Report("warn", FALSE, FALSE)
       ELSE /\ \E mode \in ShiftModes :
                 e' = [e EXCEPT !.superseded_ =
                         Store(ShiftLeft(Bits(1), Dec(superseded), mode),
                               kMaxShortcutsFromNode)]
            /\ Report("none", FALSE, UndefinedShift(Dec(superseded)))
  /\ Call("set_superseded", superseded, NoArg, 0)

(***************************************************************************)
(* Arguments and specifications.                                           *)
(***************************************************************************)
MaxCalls == 2

\* The largest in-range argument, the first out-of-range one and 2^32 - 1.
Around(max) == { Bits(max), Bits(max + 1), AllOnes }

AccessInputs ==
  { Bits(5), Bits(kAllAccess), Bits(kAllAccess + 1), Bits(kAllAccess + 6),
    Bits(1048577), AllOnes }
RestrictionInputs == { Bits(255), Bits(256), Bits(261), AllOnes }
\* 1431655766 * 3 = 2^32 + 2: an index whose bit offset wraps around to 2.
WrapIdx == Bits(1431655766)
IdxInputs == { Bits(0), Bits(kMaxLocalEdgeIndex), Bits(kMaxLocalEdgeIndex + 1), AllOnes }
StopIdxInputs ==
  { Bits(0), Bits(kMaxLocalEdgeIndex), Bits(kMaxLocalEdgeIndex + 1), WrapIdx }
StopImpactInputs == { Bits(3), Bits(kMaxStopImpact), Bits(kMaxStopImpact + 1) }
ShortcutInputs == { Bits(0), Bits(1), Bits(kMaxShortcutsFromNode),
                    Bits(kMaxShortcutsFromNode + 1), AllOnes }
LineIdInputs == { Bits(19088743), AllOnes }
SomeSlopes == { -SlopeGrid, (10 * SlopeGrid) + 1, 80 * SlopeGrid }

\* The turn type most recently written at each index by an accepted call.
Track ==
  written' = IF /\ last'.op = "set_turntype"
                /\ ~Gt(last'.a, Bits(kMaxLocalEdgeIndex))
               THEN [written EXCEPT ![Val(last'.a)] = Val(last'.b)]
               ELSE written

\* A call of a run of at most MaxCalls calls.
Bounded(A) ==
  /\ calls < MaxCalls
  /\ A
  /\ calls' = calls + 1
  /\ Track
  /\ ow' = ow

\* A call of a run of any length.
Free(A) ==
  /\ A
  /\ calls' = calls
  /\ Track
  /\ ow' = ow

Next ==
  \/ \E v \in Around(kMaxEdgeInfoOffset) : Bounded(set_edgeinfo_offset(v))
  \/ \E v \in Around(kMaxEdgeLength) : Bounded(set_length(v))
  \/ \E v \in Around(kMaxGradeFactor) : Bounded(set_weighted_grade(v))
  \/ \E v \in Around(kMaxCurvatureFactor) : Bounded(set_curvature(v))
  \/ \E v \in Around(kMaxBicycleNetwork) : Bounded(set_bike_network(v))
  \/ \E v \in Around(kMaxLaneCount) : Bounded(set_lanecount(v))
  \/ \E v \in RestrictionInputs : Bounded(set_restrictions(v))
  \/ \E v \in AccessInputs : Bounded(set_forwardaccess(v))
  \/ Bounded(set_all_forward_access)
  \/ \E v \in AccessInputs : Bounded(set_reverseaccess(v))
  \/ \E v \in Around(kMaxSpeed) : Bounded(set_speed(v))
  \/ \E v \in Around(kMaxSpeed) : Bounded(set_speed_limit(v))
  \/ \E v \in Around(kMaxSpeed) : Bounded(set_truck_speed(v))
  \/ \E v \in SomeSlopes : Bounded(set_max_up_slope(v))
  \/ \E v \in SomeSlopes : Bounded(set_max_down_slope(-v))
  \/ \E v \in Around(kMaxDensity) : Bounded(set_density(v))
  \/ \E i \in IdxInputs : Bounded(set_turntype(i, Bits(5)))
  \/ \E i \in IdxInputs : Bounded(set_edge_to_left(i, TRUE))
  \/ \E i \in StopIdxInputs, v \in StopImpactInputs : Bounded(set_stopimpact(i, v))
  \/ \E v \in LineIdInputs : Bounded(set_lineid(v))
  \/ \E i \in IdxInputs : Bounded(set_edge_to_right(i, TRUE))
  \/ \E v \in Around(kMaxEdgesPerNode) : Bounded(set_localedgeidx(v))
  \/ \E v \in Around(kMaxEdgesPerNode) : Bounded(set_opp_local_idx(v))
  \/ \E v \in ShortcutInputs : Bounded(set_shortcut(v))
  \/ \E v \in ShortcutInputs : Bounded(set_superseded(v))

Spec == Init /\ [][Next]_vars

\* Turn::Type has the eight values 0..7.
TurnTypes == { Bits(t) : t \in 0 .. ((2 ^ TurnTypeBits) - 1) }
AllIdx == { Bits(i) : i \in LocalIdx }
BadIdx == { Bits(kMaxLocalEdgeIndex + 1), Bits(11), WrapIdx, AllOnes }

\* The turn type and edge-to-left arrays.
NextTurn ==
  \/ \E i \in AllIdx \cup BadIdx, t \in TurnTypes : Bounded(set_turntype(i, t))
  \/ \E i \in AllIdx \cup BadIdx, f \in BOOLEAN : Bounded(set_edge_to_left(i, f))

SpecTurn == Init /\ [][NextTurn]_vars

\* The union: stop impacts, edge-to-right flags and the line id.
NextStop ==
  \/ \E i \in AllIdx \cup BadIdx,
        v \in StopImpactInputs \cup { Bits(0), AllOnes } :
          Bounded(set_stopimpact(i, v))
  \/ \E i \in AllIdx \cup BadIdx, f \in BOOLEAN : Bounded(set_edge_to_right(i, f))
  \/ \E v \in { Bits(0), Bits(19088743), AllOnes } : Bounded(set_lineid(v))

SpecStop == Init /\ [][NextStop]_vars

\* Shortcut and superseded slots 0 .. kMaxShortcutsFromNode + 2 and 2^32 - 1,
\* in runs of any length.
SlotInputs == { Bits(k) : k \in 0 .. (kMaxShortcutsFromNode + 2) } \cup { AllOnes }

NextShortcut ==
  \/ \E k \in SlotInputs : Free(set_shortcut(k))
  \/ \E k \in SlotInputs : Free(set_superseded(k))

SpecShortcut == Init /\ [][NextShortcut]_vars

\* Slopes from -NegSlopeDeg to MaxSlopeDeg degrees in steps of 1 / SlopeGrid,
\* in runs of any length.
MaxSlopeDeg == 80
NegSlopeDeg == 2
SlopeInputs == (-(NegSlopeDeg * SlopeGrid)) .. (MaxSlopeDeg * SlopeGrid)

NextSlope ==
  \/ \E k \in SlopeInputs : Free(set_max_up_slope(k))
  \/ \E k \in SlopeInputs : Free(set_max_down_slope(-k))

SpecSlope == Init /\ [][NextSlope]_vars

(***************************************************************************)
(* Properties.                                                             *)
(***************************************************************************)
StopImpactAt(r, i) == Slot(s_stopimpact(r), i, TurnTypeBits)
TurnTypeAt(r, i) == Slot(r.turntype_, i, TurnTypeBits)
InRange(idx) == ~Gt(idx, Bits(kMaxLocalEdgeIndex))

\* The bounds of C1 that do not concern the two local edge indexes.
FieldsBounded ==
  /\ e.length_ <= kMaxEdgeLength
  /\ e.weighted_grade_ <= kMaxGradeFactor
  /\ e.curvature_ <= kMaxCurvatureFactor
  /\ e.lanecount_ <= kMaxLaneCount
  /\ e.speed_ <= kMaxSpeed
  /\ e.speed_limit_ <= kMaxSpeed
  /\ e.truck_speed_ <= kMaxSpeed
  /\ e.density_ <= kMaxDensity
  /\ e.bike_network_ <= kMaxBicycleNetwork
  /\ e.forwardaccess_ <= kAllAccess
  /\ e.reverseaccess_ <= kAllAccess
  /\ e.restrictions_ < 2 ^ kMaxTurnRestrictionEdges
  /\ \A i \in LocalIdx : StopImpactAt(e, i) <= kMaxStopImpact

MaskedAccess(modes) ==
  IF Gt(modes, Bits(kAllAccess)) THEN Val(And(modes, Bits(kAllAccess)))
  ELSE Val(modes)

\* C2: set_forwardaccess(modes) leaves modes AND kAllAccess in the forward
\* access mask when modes > kAllAccess and modes itself otherwise, and
\* set_reverseaccess does the same for the reverse access mask.
C2_AccessMasked ==
  /\ last.op = "set_forwardaccess" => e.forwardaccess_ = MaskedAccess(last.a)
  /\ last.op = "set_reverseaccess" => e.reverseaccess_ = MaskedAccess(last.a)

\* set_forwardaccess was called with modes above kAllAccess whose low bits
\* are not all zero, after a reverse access mask was stored.
C2_Witness ==
  /\ last.op = "set_forwardaccess"
  /\ Gt(last.a, Bits(kAllAccess))
  /\ e.forwardaccess_ = 5
  /\ e.reverseaccess_ = 5

IndexedSetters ==
  { "set_turntype", "set_edge_to_left", "set_edge_to_right", "set_stopimpact" }

\* C3: a call of set_turntype, set_edge_to_left, set_edge_to_right or
\* set_stopimpact with localidx > kMaxLocalEdgeIndex changes no field of
\* the record.
C3_OutOfRangeIndexIsNoOp ==
  [][(last'.op \in IndexedSetters /\ ~InRange(last'.a)) => e' = e]_vars

\* C4: slot i of the turn type array holds the turn type of the most recent
\* set_turntype call with localidx = i, or 0 if there was none.
C4_TurnTypeLastWrite ==
  \A i \in LocalIdx : TurnTypeAt(e, i) = written[i]

\* The last call wrote turn type 5 at an index below one that already held
\* turn type 7, and both are read back.
C4_Witness ==
  /\ last.op = "set_turntype"
  /\ last.a \in AllIdx
  /\ last.b = Bits(5)
  /\ \E i, j \in LocalIdx :
       /\ i < j
       /\ Val(last.a) = i
       /\ TurnTypeAt(e, i) = 5
       /\ TurnTypeAt(e, j) = 7

\* C5: set_stopimpact(i, v) with i <= kMaxLocalEdgeIndex leaves
\* min(v, kMaxStopImpact) in slot i of the stop impact array and every
\* other slot as it was.
C5_StopImpactClamped ==
  [][(last'.op = "set_stopimpact" /\ InRange(last'.a)) =>
       \A j \in LocalIdx :
         StopImpactAt(e', j) =
           IF j = Val(last'.a)
             THEN (IF Gt(last'.b, Bits(kMaxStopImpact))
                     THEN kMaxStopImpact ELSE Val(last'.b))
             ELSE StopImpactAt(e, j)]_vars

\* A stop impact above the maximum was written at index 1 and is stored as
\* kMaxStopImpact, next to the 3 written at index 0 before.
C5_Witness ==
  /\ last.op = "set_stopimpact"
  /\ last.a = Bits(1)
  /\ Gt(last.b, Bits(kMaxStopImpact))
  /\ StopImpactAt(e, 1) = kMaxStopImpact
  /\ StopImpactAt(e, 0) = 3

OneHot(mask) ==
  \/ mask = 0
  \/ \E k \in 1 .. kMaxShortcutsFromNode : mask = 2 ^ (k - 1)

\* C6: set_shortcut(0) changes neither the shortcut mask nor is_shortcut;
\* set_shortcut(k) with 1 <= k <= kMaxShortcutsFromNode leaves the mask
\* equal to 2^(k-1) and is_shortcut true; set_shortcut(k) with a larger k
\* leaves the mask unchanged and is_shortcut true.
C6_Shortcut ==
  [][last'.op = "set_shortcut" =>
       IF last'.a = Bits(0)
         THEN /\ e'.shortcut_ = e.shortcut_
              /\ e'.is_shortcut_ = e.is_shortcut_
       ELSE IF ~Gt(last'.a, Bits(kMaxShortcutsFromNode))
         THEN /\ e'.shortcut_ = 2 ^ (Val(last'.a) - 1)
              /\ e'.is_shortcut_
         ELSE /\ e'.shortcut_ = e.shortcut_
              /\ e'.is_shortcut_]_vars

\* set_shortcut was called with a slot above the maximum on a record whose
\* shortcut mask holds bit 2, which is still the mask.
C6_Witness ==
  /\ last.op = "set_shortcut"
  /\ Gt(last.a, Bits(kMaxShortcutsFromNode))
  /\ e.shortcut_ = 4
  /\ e.is_shortcut_

\* C7: after any sequence of set_shortcut and set_superseded calls both
\* masks have at most one bit set, at one of the positions
\* 0 .. kMaxShortcutsFromNode - 1, and no call has evaluated a shift by an
\* out-of-width amount.
C7_OneHotMasks ==
  /\ OneHot(e.shortcut_)
  /\ OneHot(e.superseded_)
  /\ ~ub

\* C8: set_edgeinfo_offset(offset) with offset > kMaxEdgeInfoOffset throws
\* and leaves every field of the record unchanged; otherwise it does not
\* throw and stores offset.
C8_EdgeInfoOffset ==
  [][last'.op = "set_edgeinfo_offset" =>
       IF Gt(last'.a, Bits(kMaxEdgeInfoOffset))
         THEN thrown' /\ e' = e
         ELSE /\ ~thrown'
              /\ e' = [e EXCEPT !.edgeinfo_offset_ = Val(last'.a)]]_vars

\* set_edgeinfo_offset threw on a record that holds an offset stored by an
\* earlier call.
C8_Witness ==
  /\ last.op = "set_edgeinfo_offset"
  /\ Gt(last.a, Bits(kMaxEdgeInfoOffset))
  /\ thrown
  /\ e.edgeinfo_offset_ = kMaxEdgeInfoOffset

\* The calls of C9 that do not store their argument as given.
NotStoredAsGiven ==
  \/ last.op = "set_shortcut" /\ Gt(last.a, Bits(kMaxShortcutsFromNode))
  \/ last.op = "set_max_up_slope"
       /\ (last.s < 0 \/ last.s >= 76 * SlopeGrid)
  \/ last.op = "set_max_down_slope"
       /\ (last.s > 0 \/ last.s <= -(76 * SlopeGrid))
  \/ last.op = "set_length" /\ Gt(last.a, Bits(kMaxEdgeLength))
  \/ last.op = "set_weighted_grade" /\ Gt(last.a, Bits(kMaxGradeFactor))
  \/ last.op = "set_curvature" /\ Gt(last.a, Bits(kMaxCurvatureFactor))
  \/ last.op = "set_lanecount" /\ Gt(last.a, Bits(kMaxLaneCount))
  \/ last.op \in { "set_speed", "set_speed_limit", "set_truck_speed" }
       /\ Gt(last.a, Bits(kMaxSpeed))
  \/ last.op = "set_density" /\ Gt(last.a, Bits(kMaxDensity))
  \/ last.op = "set_bike_network" /\ Gt(last.a, Bits(kMaxBicycleNetwork))
  \/ last.op \in { "set_forwardaccess", "set_reverseaccess" }
       /\ Gt(last.a, Bits(kAllAccess))
  \/ last.op = "set_restrictions"
       /\ Ge(last.a, Shl(Bits(1), kMaxTurnRestrictionEdges))
  \/ last.op \in { "set_localedgeidx", "set_opp_local_idx" }
       /\ Gt(last.a, Bits(kMaxEdgesPerNode))
  \/ last.op \in IndexedSetters /\ ~InRange(last.a)
  \/ last.op = "set_stopimpact" /\ Gt(last.b, Bits(kMaxStopImpact))

\* C9: every setter call that does not store its argument as given logs a
\* record of severity warning or higher during the call.
C9_AlteredWriteIsLogged == NotStoredAsGiven => log \in { "warn", "error" }

\* The slope in degrees a call with slope k / SlopeGrid is to read back as.
\* For 16 <= m < 76 it is the multiple-of-4 step d with m <= d < m + 4.
SlopeReadsBack(k, d) ==
  IF k < 0 THEN d = 0
  ELSE IF k < 16 * SlopeGrid THEN d = Ceil(k, SlopeGrid)
  ELSE IF k < 76 * SlopeGrid
    THEN /\ d \in { 16 + (4 * n) : n \in 0 .. 15 }
         /\ k <= d * SlopeGrid
         /\ d * SlopeGrid < k + (4 * SlopeGrid)
  ELSE d = 76

MaxPos == 31
DstInputs == { Bits(0), Bits(19088743), Bits(1431655765), AllOnes }
SrcInputs == { Bits(0), Bits(1), Bits(5), Bits(7), Bits(8), Bits(255), AllOnes }

InitBits ==
  /\ e = DirectedEdge
  /\ log = "none"
  /\ thrown = FALSE
  /\ ub = FALSE
  /\ last = [op |-> "DirectedEdge", a |-> NoArg, b |-> NoArg, s |-> 0]
  /\ calls = 0
  /\ written = [i \in LocalIdx |-> 0]
  /\ \E dst \in DstInputs, src \in SrcInputs, pos \in 0 .. MaxPos,
        len \in 1 .. WordBits :
       ow = [NoOverwrite EXCEPT !.dst = dst, !.src = src,
                                !.pos = Bits(pos), !.len = Bits(len)]

CallOverwriteBits ==
  /\ ~ow.done
  /\ \E v \in OverwriteBits(ow.dst, ow.src, ow.pos, ow.len) :
       ow' = [ow EXCEPT !.out = v,
                        !.undefined = OverwriteBitsUndefined(ow.pos, ow.len),
                        !.done = TRUE]
  /\ UNCHANGED <<e, log, thrown, ub, last, calls, written>>

NextBits == CallOverwriteBits

SpecBits == InitBits /\ [][NextBits]_vars

\* Whether the slot pos of len bits lies inside the 32 bit word.
SlotFits(pos, len) == (Val(pos) * Val(len)) + Val(len) <= WordBits

\* The bit positions pos*len .. pos*len + len - 1 of the slot.
SlotBits(pos, len) ==
  (Val(pos) * Val(len)) .. ((Val(pos) * Val(len)) + Val(len) - 1)

\* dst with the slot replaced by the low len bits of src.
SlotReplaced(dst, src, pos, len) ==
  (dst \ SlotBits(pos, len))
    \cup { b + (Val(pos) * Val(len)) : b \in src \cap (0 .. (Val(len) - 1)) }

\* C11, as stated: for every dst, src, pos and len with pos*len + len <= 32,
\* OverwriteBits returns dst with the slot replaced by the low len bits of
\* src and every other bit as in dst.
C11_SlotReplacedForAnySrc ==
  (ow.done /\ SlotFits(ow.pos, ow.len)) =>
     ow.out = SlotReplaced(ow.dst, ow.src, ow.pos, ow.len)

\* C11, for the arguments the callers pass: the same for every src < 2^len
\* and every len < 32, and no shift of the call is undefined.
C11_SlotReplaced ==
  (/\ ow.done
   /\ SlotFits(ow.pos, ow.len)
   /\ Val(ow.len) < WordBits
   /\ ~Ge(ow.src, Shl(Bits(1), Val(ow.len)))) =>
     /\ ow.out = SlotReplaced(ow.dst, ow.src, ow.pos, ow.len)
     /\ ~ow.undefined

\* The value 5 was written into slot 3 of 3 bit slots of a word of all
\* ones: bit 10 is cleared and the rest are as they were.
C11_Witness ==
  /\ ow.done
  /\ ow.dst = AllOnes
  /\ ow.src = Bits(5)
  /\ ow.pos = Bits(3)
  /\ ow.len = Bits(3)
  /\ ow.out = AllOnes \ {10}

UnionSetters == { "set_lineid", "set_stopimpact", "set_edge_to_right" }

\* The bits of stop impact slot i and of edge-to-right flag i in the union.
StopImpactBits(i) == (TurnTypeBits * i) .. ((TurnTypeBits * i) + TurnTypeBits - 1)
EdgeToRightBit(i) == TurnArrayBits + (FlagBits * i)

\* C12: the stop impacts, the edge-to-right flags and the line id are one
\* 32 bit slot.  set_lineid(v) replaces the whole slot, so the stop impacts
\* and flags read back as the bits of v; an in-range set_stopimpact or
\* set_edge_to_right changes only its own bits of the slot, so the line id
\* is the one before with those bits replaced; no other setter changes the
\* slot.
C12_SharedSlot ==
  [][/\ last'.op = "set_lineid" =>
          /\ lineid(e') = last'.a
          /\ \A i \in LocalIdx :
               /\ StopImpactAt(e', i) =
                    Val(Shr(last'.a \cap StopImpactBits(i), TurnTypeBits * i))
               /\ ((s_edge_to_right(e') \div (2 ^ i)) % 2 = 1)
                    <=> (EdgeToRightBit(i) \in last'.a)
     /\ (last'.op = "set_stopimpact" /\ InRange(last'.a)) =>
          lineid(e') =
            (lineid(e) \ StopImpactBits(Val(last'.a)))
              \cup Shl(IF Gt(last'.b, Bits(kMaxStopImpact))
                         THEN Bits(kMaxStopImpact) ELSE last'.b,
                       TurnTypeBits * Val(last'.a))
     /\ (last'.op = "set_edge_to_right" /\ InRange(last'.a)) =>
          lineid(e') =
            (lineid(e) \ { EdgeToRightBit(Val(last'.a)) })
              \cup Shl(last'.b, EdgeToRightBit(Val(last'.a)))
     /\ last'.op \notin UnionSetters => lineid(e') = lineid(e)]_vars

\* After set_lineid(2^32 - 1) the stop impact 3 was written at index 0: the
\* line id reads back as 2^32 - 1 with bit 2 cleared, and the edge-to-right
\* flags still read as the high bits of the id.
C12_Witness ==
  /\ last.op = "set_stopimpact"
  /\ last.a = Bits(0)
  /\ last.b = Bits(3)
  /\ lineid(e) = AllOnes \ {2}
  /\ s_edge_to_right(e) = 255

====
